---- MODULE Spec2Model ----
(***************************************************************************)
(* Model of Teacherscrapper.py: the crawl loop of TeacherScraper.crawl,    *)
(* the link resolver, the relevance tests, the profile extractor and the   *)
(* label/value harvester.                                                  *)
(*                                                                         *)
(* A Python str is a sequence of one-character strings, so that splitting, *)
(* stripping, lower-casing, substring and suffix tests are computed, not   *)
(* assumed.  <<"a", ":", "b">> is the str "a:b".                           *)
(***************************************************************************)
EXTENDS Integers, Sequences, FiniteSets, TLC

\* An Optional value is a sequence of at most one element: None is the empty
\* one, and Some(x) holds x.
None == <<>>

Some(x) == <<x>>

\* The value an Optional holds (it is not None).
value(opt) == opt[1]

(***************************************************************************)
(* str primitives                                                          *)
(***************************************************************************)

\* The characters \s matches and str.strip() removes (those the inputs use).
Whitespace == {" ", "\t", "\n"}

\* The upper-case letters and their lower-case forms.
LowerOf ==
  [c \in {"A","B","C","D","E","F","G","H","I","J","K","L","M","N","O","P","Q",
          "R","S","T","U","V","W","X","Y","Z"} |->
     CASE c = "A" -> "a" [] c = "B" -> "b" [] c = "C" -> "c" [] c = "D" -> "d"
       [] c = "E" -> "e" [] c = "F" -> "f" [] c = "G" -> "g" [] c = "H" -> "h"
       [] c = "I" -> "i" [] c = "J" -> "j" [] c = "K" -> "k" [] c = "L" -> "l"
       [] c = "M" -> "m" [] c = "N" -> "n" [] c = "O" -> "o" [] c = "P" -> "p"
       [] c = "Q" -> "q" [] c = "R" -> "r" [] c = "S" -> "s" [] c = "T" -> "t"
       [] c = "U" -> "u" [] c = "V" -> "v" [] c = "W" -> "w" [] c = "X" -> "x"
       [] c = "Y" -> "y" [] c = "Z" -> "z"]

\* s.lower()
str_lower(s) ==
  [i \in 1..Len(s) |-> IF s[i] \in DOMAIN LowerOf THEN LowerOf[s[i]] ELSE s[i]]

\* sub in s
str_contains(s, sub) ==
  \E i \in 0..(Len(s) - Len(sub)) : SubSeq(s, i + 1, i + Len(sub)) = sub

\* s.startswith(p)
str_startswith(s, p) ==
  Len(s) >= Len(p) /\ SubSeq(s, 1, Len(p)) = p

\* s.endswith(p)
str_endswith(s, p) ==
  Len(s) >= Len(p) /\ SubSeq(s, Len(s) - Len(p) + 1, Len(s)) = p

\* The index of the first character of s that is in cs, 0 when there is none.
str_find(s, cs) ==
  IF \E i \in 1..Len(s) : s[i] \in cs
  THEN CHOOSE i \in 1..Len(s) : s[i] \in cs /\ \A j \in 1..(i - 1) : s[j] \notin cs
  ELSE 0

\* s.lstrip(cs), for a set of characters cs
RECURSIVE str_lstrip(_, _)
str_lstrip(s, cs) ==
  IF s # <<>> /\ Head(s) \in cs THEN str_lstrip(Tail(s), cs) ELSE s

\* s.rstrip(cs), for a set of characters cs
RECURSIVE str_rstrip(_, _)
str_rstrip(s, cs) ==
  IF s # <<>> /\ s[Len(s)] \in cs THEN str_rstrip(SubSeq(s, 1, Len(s) - 1), cs) ELSE s

\* s.strip()
str_strip(s) == str_rstrip(str_lstrip(s, Whitespace), Whitespace)

\* s.split(c)[0]: the part of s in front of the first c, all of s without a c
str_before(s, c) ==
  IF str_find(s, {c}) = 0 THEN s ELSE SubSeq(s, 1, str_find(s, {c}) - 1)

\* s.split(c, 1)[1]: the part of s behind the first c (s holds a c)
str_after(s, c) == SubSeq(s, str_find(s, {c}) + 1, Len(s))

\* re.sub(r"\s+", " ", s): every run of whitespace becomes one space
RECURSIVE sub_whitespace(_)
sub_whitespace(s) ==
  IF s = <<>> THEN <<>>
  ELSE IF Head(s) \in Whitespace
       THEN <<" ">> \o sub_whitespace(str_lstrip(s, Whitespace))
       ELSE <<Head(s)>> \o sub_whitespace(Tail(s))

\* normalize_text(x), x a str: "" for "", else whitespace collapsed and stripped
\* (the callers' None is handled where they unwrap their Optional)
normalize_text(x) ==
  IF x = <<>> THEN <<>> ELSE str_strip(sub_whitespace(x))

(***************************************************************************)
(* urllib.parse, for the URL forms the inputs use                          *)
(***************************************************************************)

\* The scheme of a URL: what stands in front of its first ":" when no "/", "?"
\* or "#" comes earlier; "" otherwise.
url_scheme(url) ==
  LET i == str_find(url, {":", "/", "?", "#"})
  IN  IF i > 1 /\ url[i] = ":" THEN SubSeq(url, 1, i - 1) ELSE <<>>

\* The URL behind its scheme and the ":".
url_rest(url) ==
  IF url_scheme(url) = <<>> THEN url
  ELSE SubSeq(url, Len(url_scheme(url)) + 2, Len(url))

\* urlparse(url).netloc: between "//" and the next "/", "?" or "#".
url_netloc(url) ==
  LET rest == url_rest(url)
  IN  IF str_startswith(rest, <<"/", "/">>)
      THEN LET r == SubSeq(rest, 3, Len(rest))
               i == str_find(r, {"/", "?", "#"})
           IN  IF i = 0 THEN r ELSE SubSeq(r, 1, i - 1)
      ELSE <<>>

\* urlsplit raises ValueError("Invalid IPv6 URL") on an unbalanced bracket in
\* the netloc.
urlparse_raises(url) ==
  LET n == url_netloc(url)
      has(c) == \E i \in 1..Len(n) : n[i] = c
  IN  (has("[") /\ ~has("]")) \/ (has("]") /\ ~has("["))

\* scheme://netloc of a URL
url_origin(url) == url_scheme(url) \o <<":", "/", "/">> \o url_netloc(url)

\* urljoin(base, href) raises when parsing either argument raises.
urljoin_raises(base, href) ==
  href # <<>> /\ (urlparse_raises(base) \/ urlparse_raises(href))

\* urljoin(base, href) for: an empty href, an href with a scheme, "#fragment",
\* "/path", and a relative path without dot segments.
urljoin(base, href) ==
  IF href = <<>> THEN base
  ELSE IF url_scheme(href) # <<>> THEN href
  ELSE IF Head(href) = "#" THEN str_before(base, "#") \o href
  ELSE IF Head(href) = "/" THEN url_origin(base) \o href
  ELSE LET b == str_before(str_before(base, "#"), "?")
           RECURSIVE dir(_)
           dir(s) == IF s = <<>> \/ s[Len(s)] = "/" THEN s
                     ELSE dir(SubSeq(s, 1, Len(s) - 1))
       IN  dir(b) \o href

(***************************************************************************)
(* A parsed page (BeautifulSoup), by what the scraper reads from it:       *)
(*   anchors  the href of every <a href>, in document order                *)
(*   title    soup.title.string, an Optional                               *)
(*   h1,h2,h3 the text of the first such element, an Optional              *)
(*   dls      every <dl>: [dts |-> its <dt> texts, dds |-> its <dd> texts] *)
(*   tables   every <table>: its <tr> rows, a row being its cell texts     *)
(*   paras    the text of every <p> and <li>                               *)
(*   text     soup.get_text()                                              *)
(*   re_emails, re_phones  what the two regular expressions match in text  *)
(*   img      the src of the first <img>, an Optional                      *)
(***************************************************************************)

\* d[k] = v on a dict
dict_set(d, k, v) == [x \in (DOMAIN d) \cup {k} |-> IF x = k THEN v ELSE d[x]]

\* A setdefault that overwrites: what pass 3 would do with pairs[k] = v.
dict_setdefault_overwriting(d, k, v) == dict_set(d, k, v)

\* d.setdefault(k, v)
dict_setdefault(d, k, v) == IF k \in DOMAIN d THEN d ELSE dict_set(d, k, v)

\* The key of a <dt> or of a first table cell:
\* normalize_text(t).lower().rstrip(":")
label_key(t) == str_rstrip(str_lower(normalize_text(t)), {":"})

\* for dt, dd in zip(dts, dds): if k: pairs[k] = v
RECURSIVE dl_pairs(_, _, _)
dl_pairs(pairs, dts, dds) ==
  IF dts = <<>> \/ dds = <<>> THEN pairs
  ELSE LET k == label_key(Head(dts))
           v == normalize_text(Head(dds))
       IN  dl_pairs(IF k # <<>> THEN dict_set(pairs, k, v) ELSE pairs,
                    Tail(dts), Tail(dds))

\* Pass 1, for dl in soup.find_all("dl")
RECURSIVE dl_pass(_, _)
dl_pass(pairs, dls) ==
  IF dls = <<>> THEN pairs
  ELSE dl_pass(dl_pairs(pairs, Head(dls).dts, Head(dls).dds), Tail(dls))

\* for row in table.find_all("tr"): if len(cols) >= 2: ... if k: pairs[k] = v
RECURSIVE row_pairs(_, _)
row_pairs(pairs, rows) ==
  IF rows = <<>> THEN pairs
  ELSE LET cols == Head(rows)
           k == label_key(cols[1])
           v == normalize_text(cols[2])
       IN  row_pairs(IF Len(cols) >= 2 /\ k # <<>> THEN dict_set(pairs, k, v) ELSE pairs,
                     Tail(rows))

\* Pass 2, for table in soup.find_all("table")
RECURSIVE table_pass(_, _)
table_pass(pairs, tables) ==
  IF tables = <<>> THEN pairs
  ELSE table_pass(row_pairs(pairs, Head(tables)), Tail(tables))

\* The longest key the free-text pass accepts is one shorter than this.
KeyLenLimit == 40

\* Pass 3, for p in soup.find_all(["p", "li"]): 'Label: value' lines
RECURSIVE text_pass(_, _)
text_pass(pairs, paras) ==
  IF paras = <<>> THEN pairs
  ELSE LET text == normalize_text(Head(paras))
           k == str_strip(str_lower(str_before(text, ":")))
           v == str_strip(str_after(text, ":"))
       IN  text_pass(IF str_contains(text, <<":">>) /\ Len(k) < KeyLenLimit /\ Len(v) > 0
                     THEN dict_setdefault(pairs, k, v) ELSE pairs,
                     Tail(paras))

\* find_label_value_pairs(soup)
find_label_value_pairs(soup) ==
  text_pass(table_pass(dl_pass(<<>>, soup.dls), soup.tables), soup.paras)

\* list(set(re.findall(...))): the distinct matches, in no particular order
extract_emails(matches) == {matches[i] : i \in 1..Len(matches)}

\* list(dict.fromkeys(xs)): the first occurrence of each element, in order
RECURSIVE dict_fromkeys(_)
dict_fromkeys(xs) ==
  IF xs = <<>> THEN <<>>
  ELSE LET init == dict_fromkeys(SubSeq(xs, 1, Len(xs) - 1))
           x == xs[Len(xs)]
       IN  IF \E i \in 1..Len(init) : init[i] = x THEN init ELSE Append(init, x)

\* extract_phones: every match cleaned by re.sub(r"\s+", " ", p).strip(),
\* duplicates dropped, first-seen order kept
extract_phones(matches) ==
  dict_fromkeys([i \in 1..Len(matches) |-> str_strip(sub_whitespace(matches[i]))])

(***************************************************************************)
(* The inputs: the URLs of the site and the pages it serves                *)
(***************************************************************************)

\* The longest anchor list built from the site's own pages.
MaxLinks == 2

\* The largest limit argument of crawl().
MaxLimit == 3

\* The largest max_pages of the scraper (read when limit is None or 0).
MaxPages == 1

U_root == <<"h","t","t","p",":","/","/","e",".","u","/">>

U_root_frag == <<"h","t","t","p",":","/","/","e",".","u","/","#","t">>

U_a == <<"h","t","t","p",":","/","/","e",".","u","/","a">>

U_b == <<"h","t","t","p",":","/","/","e",".","u","/","b">>

U_law == <<"h","t","t","p",":","/","/","e",".","u","/","l","a","w">>

U_sub_cse == <<"h","t","t","p",":","/","/","c",".","e",".","u","/","C","S","E","#","s">>

U_other == <<"h","t","t","p",":","/","/","n","e",".","u","/","a">>

U_bad == <<"h","t","t","p",":","/","/","[">>

H_frag == <<"#","t">>

H_mailto == <<"m","a","i","l","t","o",":","x">>

\* The start URLs a caller passes: without and with a fragment.
StartUrls == {U_root, U_root_frag}

\* The hrefs of the site's own pages: two plain pages and two pages whose URL
\* holds a keyword (one of them on a subdomain, in upper case, with a fragment).
PageHrefs == {U_a, U_b, U_law, U_sub_cse}

\* The sequences over S of length at most n.
SeqsUpTo(S, n) == UNION {[1..k -> S] : k \in 0..n}

\* The anchor lists of the served pages: every list of at most MaxLinks page
\* hrefs, and lists with a fragment-only link, a foreign host ending in the
\* domain's letters, a mailto: link and an href urljoin cannot parse.
AnchorLists ==
  SeqsUpTo(PageHrefs, MaxLinks)
  \cup { <<H_frag>>, <<H_frag, U_law>>, <<U_other, U_a>>, <<H_mailto, U_law>>,
         <<U_bad>>, <<U_a, U_bad>> }

\* Every URL the crawl can meet.
SiteUrls ==
  LET raw == StartUrls \cup PageHrefs \cup {U_other, U_bad}
  IN  raw \cup {str_before(u, "#") : u \in raw}

(***************************************************************************)
(* TeacherScraper                                                          *)
(***************************************************************************)

\* self.keywords
keywords ==
  { <<"t","e","a","c","h","e","r">>, <<"f","a","c","u","l","t","y">>,
    <<"s","t","a","f","f">>, <<"p","e","o","p","l","e">>,
    <<"p","e","r","s","o","n","n","e","l">>, <<"p","r","o","f","i","l","e">>,
    <<"a","c","a","d","e","m","i","c">>, <<"d","e","p","t">>,
    <<"d","i","v","i","s","i","o","n">>, <<"f","s","e">>, <<"f","s","i","s">>,
    <<"f","b","s">>, <<"f","a","h">>, <<"l","a","w">>, <<"d","i","s">>,
    <<"s","h","i","s">>, <<"q","s","i","s">>, <<"c","s","e">>, <<"e","e","e">>,
    <<"c","c","e">> }

\* A domain test by suffix alone: netloc.endswith(self.domain).
is_same_domain_by_suffix(url, domain) ==
  IF urlparse_raises(url) THEN FALSE
  ELSE str_endswith(url_netloc(url), domain)

\* is_same_domain(url), for self.domain = domain; a parse error gives False
is_same_domain(url, domain) ==
  IF urlparse_raises(url) THEN FALSE
  ELSE url_netloc(url) = domain \/ str_endswith(url_netloc(url), <<".">> \o domain)

\* An anchor get_links skips before resolving it: mailto: and tel: hrefs.
href_skipped(href) ==
  \/ str_startswith(str_strip(href), <<"m","a","i","l","t","o",":">>)
  \/ str_startswith(str_strip(href), <<"t","e","l",":">>)

\* get_links raises when urljoin raises on an anchor it does not skip (the
\* call of line 107 stands outside every try).
get_links_raises(anchors, base_url) ==
  \E i \in 1..Len(anchors) :
     ~href_skipped(anchors[i]) /\ urljoin_raises(base_url, str_strip(anchors[i]))

\* get_links(soup, base_url), for self.domain = domain
RECURSIVE get_links(_, _, _)
get_links(anchors, base_url, domain) ==
  IF anchors = <<>> THEN <<>>
  ELSE LET href == str_strip(Head(anchors))
           full == urljoin(base_url, href)
           rest == get_links(Tail(anchors), base_url, domain)
       IN  IF href_skipped(href) THEN rest
           ELSE IF is_same_domain(full, domain) THEN <<str_before(full, "#")>> \o rest
           ELSE rest

\* any(k in lower for k in self.keywords), for lower = url.lower()
keyword_in(url) ==
  LET lower == str_lower(url)
  IN  \E k \in keywords : str_contains(lower, k)

\* keyword_in on the URLs of the site, computed once.
keyword_table == [u \in SiteUrls |-> keyword_in(u)]

any_keyword_in(url) ==
  IF url \in SiteUrls THEN keyword_table[url] ELSE keyword_in(url)

\* is_potential_relevant(url)
is_potential_relevant(url) == any_keyword_in(url)

\* The marker words of looks_like_profile.
markers ==
  { <<"r","e","s","e","a","r","c","h">>,
    <<"d","e","s","i","g","n","a","t","i","o","n">>,
    <<"e","m","a","i","l">> }

\* A page-level test that takes a marker word without asking for a heading.
looks_like_profile_without_heading(u, soup) ==
  \/ any_keyword_in(u)
  \/ \E m \in markers : str_contains(str_lower(soup.text), m)

\* looks_like_profile(url, soup)
looks_like_profile(url, soup) ==
  \/ any_keyword_in(url)
  \/ /\ \E m \in markers : str_contains(str_lower(soup.text), m)
     /\ (soup.h1 # None \/ soup.h2 # None)

\* The name extract_profile finds: the title, replaced by the first of h1, h2,
\* h3 whose stripped text is longer than 2 characters.
profile_name(soup) ==
  LET title == IF soup.title # None /\ value(soup.title) # <<>>
               THEN normalize_text(value(soup.title)) ELSE <<>>
      ok(t) == t # None /\ Len(str_strip(value(t))) > 2
  IN  IF ok(soup.h1) THEN normalize_text(value(soup.h1))
      ELSE IF ok(soup.h2) THEN normalize_text(value(soup.h2))
      ELSE IF ok(soup.h3) THEN normalize_text(value(soup.h3))
      ELSE title

\* get_pair(*keys): the value of the first key that pairs holds, else "".
RECURSIVE get_pair(_, _)
get_pair(pairs, keys) ==
  IF keys = <<>> THEN <<>>
  ELSE IF Head(keys) \in DOMAIN pairs THEN pairs[Head(keys)]
  ELSE get_pair(pairs, Tail(keys))

\* The synonyms of the four looked-up fields.
designation_keys ==
  << <<"d","e","s","i","g","n","a","t","i","o","n">>,
     <<"p","o","s","i","t","i","o","n">>, <<"p","o","s","t">> >>

department_keys ==
  << <<"d","e","p","a","r","t","m","e","n","t">>, <<"d","e","p","t">>,
     <<"d","i","v","i","s","i","o","n">> >>

research_keys ==
  << <<"r","e","s","e","a","r","c","h"," ","i","n","t","e","r","e","s","t","s">>,
     <<"r","e","s","e","a","r","c","h">>,
     <<"a","r","e","a"," ","o","f"," ","i","n","t","e","r","e","s","t">>,
     <<"r","e","s","e","a","r","c","h"," ","a","r","e","a">> >>

office_keys ==
  << <<"o","f","f","i","c","e">>, <<"r","o","o","m">>,
     <<"o","f","f","i","c","e"," ","n","o">>,
     <<"o","f","f","i","c","e"," ","a","d","d","r","e","s","s">> >>

\* extract_profile raises when urljoin raises on the src of the first image.
extract_profile_raises(url, soup) ==
  soup.img # None /\ value(soup.img) # <<>> /\ urljoin_raises(url, value(soup.img))

\* The guard without its designation test.
not_a_profile_without_designation(name, emails, phones, designation) ==
  name = <<>> /\ emails = {} /\ phones = <<>>

\* The guard of extract_profile: no name, no email, no phone, no designation.
not_a_profile(name, emails, phones, designation) ==
  name = <<>> /\ emails = {} /\ phones = <<>> /\ designation = <<>>

\* extract_profile(url, soup): Some(record), or None
extract_profile(url, soup) ==
  LET name == profile_name(soup)
      pairs == find_label_value_pairs(soup)
      designation == get_pair(pairs, designation_keys)
      emails == extract_emails(soup.re_emails)
      phones == extract_phones(soup.re_phones)
  IN  IF not_a_profile(name, emails, phones, designation) THEN None
      ELSE Some([ name |-> name,
             designation |-> designation,
             department |-> get_pair(pairs, department_keys),
             research_interests |-> get_pair(pairs, research_keys),
             office |-> get_pair(pairs, office_keys),
             emails |-> emails,
             phones |-> phones,
             image |-> IF soup.img # None /\ value(soup.img) # <<>>
                       THEN Some(urljoin(url, value(soup.img))) ELSE None,
             profile_url |-> url ])

(***************************************************************************)
(* The pages                                                               *)
(***************************************************************************)

\* A page without any content.
Blank ==
  [ title |-> None, h1 |-> None, h2 |-> None, h3 |-> None,
    dls |-> <<>>, tables |-> <<>>, paras |-> <<>>, text |-> <<>>,
    re_emails |-> <<>>, re_phones |-> <<>>, img |-> None ]

\* The contents a served page has (its anchors apart):
\*   Blank;
\*   a notice: a two-letter heading and the word Email, nothing to extract;
\*   a page whose only datum is the table row  Post: | Dr, with a two-letter
\*     <h3> and the word Designation, but no <h1> or <h2>;
\*   a profile: title, heading, designation line, e-mail twice, phone, image;
\*   a page whose image src urljoin cannot parse.
PageContents ==
  { Blank,
    [Blank EXCEPT !.h1 = Some(<<"H","i">>), !.text = <<"H","i"," ","E","m","a","i","l">>],
    [Blank EXCEPT !.tables = << << << <<"P","o","s","t",":">>, <<"D","r">> >> >> >>,
                  !.h3 = Some(<<"D","r">>),
                  !.text = <<"D","r"," ","D","e","s","i","g","n","a","t","i","o","n">>],
    [Blank EXCEPT !.title = Some(<<"T">>), !.h2 = Some(<<" ","D","o","e","\n">>),
                  !.paras = << <<"D","e","s","i","g","n","a","t","i","o","n",":"," ","D","r">> >>,
                  !.text = <<"D","o","e"," ","e","m","a","i","l">>,
                  !.re_emails = <<"d@e.u", "d@e.u">>,
                  !.re_phones = << <<"+","1"," "," ","2">> >>,
                  !.img = Some(<<"/","i">>)],
    [Blank EXCEPT !.h1 = Some(<<"D","o","e">>), !.text = <<"r","e","s","e","a","r","c","h">>,
                  !.img = Some(U_bad)] }

text_html == <<"t","e","x","t","/","h","t","m","l">>

\* The responses of a GET that returns: a page with its anchors, a missing
\* page, and a file that is not HTML.
Responses ==
  {[status_code |-> 200, content_type |-> text_html \o <<";","u","8">>, anchors |-> a] :
      a \in AnchorLists}
  \cup {[status_code |-> 404, content_type |-> text_html, anchors |-> <<U_a>>],
        [status_code |-> 200, content_type |-> <<"i","m","g">>, anchors |-> <<U_a>>]}

(***************************************************************************)
(* TeacherScraper.crawl                                                    *)
(***************************************************************************)

VARIABLES
  start_url,   \* self.start_url
  domain,      \* self.domain
  max_pages,   \* self.max_pages
  verify,      \* self.session.verify: "certifi" (a CA bundle) or "False"
  limit_arg,   \* the limit argument of crawl(), an Optional int
  limit,       \* the local limit, after line 187
  seen,        \* the set seen
  q,           \* the deque q; every entry is a URL with the serial number of
               \* its enqueue (seq is history, no code reads it)
  results,     \* the list results
  url,         \* the local url of the loop body, "" before the first iteration
  pc,          \* where crawl() stands: "loop", "sleep", "get", "retry",
               \* "classify" (line 231), "done" (returned) or "raised" (an
               \* exception left crawl)
  fetches,     \* history: how often each URL had a first GET (a bag)
  downgraded,  \* history: a GET of this crawl has raised SSLError
  last_fetch,  \* history: the last GET of the current iteration, an Optional
  last_page,   \* history: the page of the current iteration once it reached
               \* line 218, an Optional
  last_call,   \* history: the last of time.sleep / session.get, "none" at first
  next_seq     \* history: the serial number of the next enqueue

\* A call of find_label_value_pairs on its own.
VARIABLES
  h_soup,      \* the argument soup
  h_pairs,     \* the dict returned
  h_pc         \* "call", "return", or "off" while crawl() runs

vars ==
  << start_url, domain, max_pages, verify, limit_arg, limit, seen, q, results,
     url, pc, fetches, downgraded, last_fetch, last_page, last_call, next_seq,
     h_soup, h_pairs, h_pc >>

\* The hard cap on the number of results.
ResultCap == 10000

\* limit = limit or self.max_pages
effective_limit(arg, maxp) ==
  IF arg = None \/ value(arg) = 0 THEN maxp ELSE value(arg)

\* A loop condition that stops one page short of the budget.
loop_condition_one_short(queue, visited, res, lim) ==
  queue # <<>> /\ Cardinality(visited) + 1 < lim /\ Len(res) < ResultCap

\* The condition of the while loop.
loop_condition(queue, visited, res, lim) ==
  queue # <<>> /\ Cardinality(visited) < lim /\ Len(res) < ResultCap

\* An enqueue that appends every link, relevant or not.
enqueue_append_only(queue, entry) == Append(queue, entry)

\* An enqueue that puts every link at the front, relevant or not.
enqueue_appendleft_only(queue, entry) == <<entry>> \o queue

\* q.appendleft(link) for a relevant link, q.append(link) for another
enqueue(queue, entry) ==
  IF is_potential_relevant(entry.url) THEN <<entry>> \o queue
  ELSE Append(queue, entry)

\* The for loop over the links without its test  if link not in seen.
RECURSIVE enqueue_links_unchecked(_, _, _, _, _)
enqueue_links_unchecked(queue, visited, links, lim, n) ==
  IF links = <<>> THEN queue
  ELSE IF Cardinality(visited) + Len(queue) >= lim THEN queue
  ELSE enqueue_links_unchecked(enqueue(queue, [url |-> Head(links), seq |-> n]),
                               visited, Tail(links), lim, n + 1)

\* The for loop over the links with the test  if link not in q  for
\* if link not in seen.
RECURSIVE enqueue_links_testing_q(_, _, _, _, _)
enqueue_links_testing_q(queue, visited, links, lim, n) ==
  IF links = <<>> THEN queue
  ELSE IF \E i \in 1..Len(queue) : queue[i].url = Head(links)
       THEN enqueue_links_testing_q(queue, visited, Tail(links), lim, n)
  ELSE IF Cardinality(visited) + Len(queue) >= lim THEN queue
  ELSE enqueue_links_testing_q(enqueue(queue, [url |-> Head(links), seq |-> n]),
                               visited, Tail(links), lim, n + 1)

\* The for loop over the links with the break test
\* len(seen) + len(q) > limit  for  len(seen) + len(q) >= limit.
RECURSIVE enqueue_links_off_by_one(_, _, _, _, _)
enqueue_links_off_by_one(queue, visited, links, lim, n) ==
  IF links = <<>> THEN queue
  ELSE IF Head(links) \in visited
       THEN enqueue_links_off_by_one(queue, visited, Tail(links), lim, n)
  ELSE IF Cardinality(visited) + Len(queue) > lim THEN queue
  ELSE enqueue_links_off_by_one(enqueue(queue, [url |-> Head(links), seq |-> n]),
                                visited, Tail(links), lim, n + 1)

\* The for loop over the links of a page: a link in seen is passed over, the
\* loop breaks once len(seen) + len(q) >= limit, every other link is enqueued.
RECURSIVE enqueue_links(_, _, _, _, _)
enqueue_links(queue, visited, links, lim, n) ==
  IF links = <<>> THEN queue
  ELSE IF Head(links) \in visited
       THEN enqueue_links(queue, visited, Tail(links), lim, n)
  ELSE IF Cardinality(visited) + Len(queue) >= lim THEN queue
  ELSE enqueue_links(enqueue(queue, [url |-> Head(links), seq |-> n]),
                     visited, Tail(links), lim, n + 1)

\* An SSLError handler that leaves self.session.verify as it is.
verify_kept(v) == v

\* self.session.verify after an SSLError on the first attempt
verify_after_ssl_error(v) == "False"

\* status 200 and 'text/html' in r.headers.get('Content-Type', '')
response_accepted(r) ==
  r.status_code = 200 /\ str_contains(r.content_type, text_html)

\* What history says a returned GET ended in.
outcome_of(r) == IF response_accepted(r) THEN "page" ELSE "rejected"

\* A bag with one more x.
bag_add(b, x) ==
  IF x \in DOMAIN b THEN [b EXCEPT ![x] = @ + 1] ELSE b @@ (x :> 1)

\* The history of a GET.
fetched(attempt, outcome) ==
  Some([url |-> url, attempt |-> attempt, verify |-> verify, outcome |-> outcome])

\* The history of a page at a stage of lines 218-236.
page_at(stage, content, tested, profile) ==
  Some([url |-> url, stage |-> stage, content |-> content, tested |-> tested,
        profile |-> profile])

\* Lines 215-228 without the test of lines 215-216: the links of every
\* response are collected and enqueued, and a rejected one is then dropped.
handle_response_without_test(r) ==
  IF get_links_raises(r.anchors, url)
  THEN /\ pc' = "raised"
       /\ last_page' = page_at("get_links", None, FALSE, None)
       /\ UNCHANGED <<q, next_seq>>
  ELSE LET q1 == enqueue_links(q, seen, get_links(r.anchors, url, domain), limit, next_seq)
       IN  /\ q' = q1
           /\ next_seq' = next_seq + (Len(q1) - Len(q))
           /\ last_page' = IF response_accepted(r)
                           THEN page_at("links", None, FALSE, None) ELSE last_page
           /\ pc' = IF response_accepted(r) THEN "classify" ELSE "loop"

\* Lines 215-228 on a response: a status other than 200 or a content type
\* without text/html abandons the URL; else the links are collected and
\* enqueued.  An exception of get_links leaves crawl.
handle_response(r) ==
  IF ~response_accepted(r)
  THEN /\ pc' = "loop"
       /\ UNCHANGED <<q, next_seq, last_page>>
  ELSE IF get_links_raises(r.anchors, url)
  THEN /\ pc' = "raised"
       /\ last_page' = page_at("get_links", None, FALSE, None)
       /\ UNCHANGED <<q, next_seq>>
  ELSE LET q1 == enqueue_links(q, seen, get_links(r.anchors, url, domain), limit, next_seq)
       IN  /\ q' = q1
           /\ next_seq' = next_seq + (Len(q1) - Len(q))
           /\ last_page' = page_at("links", None, FALSE, None)
           /\ pc' = "classify"

\* The scraper as constructed and crawl() at its while loop (lines 187-190).
\* max_pages is read only when limit is None or 0, and varies only then.
Init ==
  /\ start_url \in StartUrls
  /\ domain = url_netloc(start_url)
  /\ verify = "certifi"
  /\ limit_arg \in {None} \cup {Some(n) : n \in (-1)..MaxLimit}
  /\ max_pages \in IF limit_arg = None \/ value(limit_arg) = 0
                   THEN 0..MaxPages ELSE {MaxPages}
  /\ limit = effective_limit(limit_arg, max_pages)
  /\ seen = {}
  /\ q = <<[url |-> start_url, seq |-> 0]>>
  /\ next_seq = 1
  /\ results = <<>>
  /\ url = <<>>
  /\ pc = "loop"
  /\ fetches = <<>>
  /\ downgraded = FALSE
  /\ last_fetch = None
  /\ last_page = None
  /\ last_call = "none"
  /\ h_soup = Blank
  /\ h_pairs = <<>>
  /\ h_pc = "off"

\* What crawl() never assigns.
const_vars ==
  <<start_url, domain, max_pages, limit_arg, limit, h_soup, h_pairs, h_pc>>

\* A dequeue without the test  if url in seen: continue : a URL already in
\* seen is handled again.
DequeueSeen_again ==
  /\ pc = "loop"
  /\ loop_condition(q, seen, results, limit)
  /\ Head(q).url \in seen
  /\ url' = Head(q).url
  /\ q' = Tail(q)
  /\ pc' = "sleep"
  /\ last_fetch' = None
  /\ last_page' = None
  /\ UNCHANGED <<const_vars, verify, seen, results, fetches, downgraded,
                 last_call, next_seq>>

\* url = q.popleft(); if url in seen: continue
DequeueSeen ==
  /\ pc = "loop"
  /\ loop_condition(q, seen, results, limit)
  /\ Head(q).url \in seen
  /\ url' = Head(q).url
  /\ q' = Tail(q)
  /\ last_fetch' = None
  /\ last_page' = None
  /\ UNCHANGED <<const_vars, verify, seen, results, pc, fetches, downgraded,
                 last_call, next_seq>>

\* url = q.popleft(); seen.add(url)
DequeueNew ==
  /\ pc = "loop"
  /\ loop_condition(q, seen, results, limit)
  /\ Head(q).url \notin seen
  /\ url' = Head(q).url
  /\ q' = Tail(q)
  /\ seen' = seen \cup {Head(q).url}
  /\ pc' = "sleep"
  /\ last_fetch' = None
  /\ last_page' = None
  /\ UNCHANGED <<const_vars, verify, results, fetches, downgraded, last_call,
                 next_seq>>

\* The loop condition fails: return results
Return ==
  /\ pc = "loop"
  /\ ~loop_condition(q, seen, results, limit)
  /\ pc' = "done"
  /\ UNCHANGED <<const_vars, verify, seen, q, results, url, fetches, downgraded,
                 last_fetch, last_page, last_call, next_seq>>

\* time.sleep(self.delay)
Sleep ==
  /\ pc = "sleep"
  /\ last_call' = "sleep"
  /\ pc' = "get"
  /\ UNCHANGED <<const_vars, verify, seen, q, results, url, fetches, downgraded,
                 last_fetch, last_page, next_seq>>

\* r = self.session.get(url, timeout=15) returns a response (line 199)
GetResponse ==
  /\ pc = "get"
  /\ \E r \in Responses :
       /\ last_fetch' = fetched(1, outcome_of(r))
       /\ handle_response(r)
  /\ fetches' = bag_add(fetches, url)
  /\ last_call' = "get"
  /\ UNCHANGED <<const_vars, verify, seen, results, url, downgraded>>

\* session.get raises requests.exceptions.SSLError (lines 200-203)
GetSSLError ==
  /\ pc = "get"
  /\ last_fetch' = fetched(1, "ssl_error")
  /\ fetches' = bag_add(fetches, url)
  /\ verify' = verify_after_ssl_error(verify)
  /\ downgraded' = TRUE
  /\ last_call' = "get"
  /\ pc' = "retry"
  /\ UNCHANGED <<const_vars, seen, q, results, url, last_page, next_seq>>

\* A handler of lines 210-213 that tries the GET again.
GetException_retrying ==
  /\ pc = "get"
  /\ last_fetch' = fetched(1, "error")
  /\ fetches' = bag_add(fetches, url)
  /\ last_call' = "get"
  /\ pc' = "retry"
  /\ UNCHANGED <<const_vars, verify, seen, q, results, url, downgraded,
                 last_page, next_seq>>

\* session.get raises another exception (lines 210-213): continue
GetException ==
  /\ pc = "get"
  /\ last_fetch' = fetched(1, "error")
  /\ fetches' = bag_add(fetches, url)
  /\ last_call' = "get"
  /\ pc' = "loop"
  /\ UNCHANGED <<const_vars, verify, seen, q, results, url, downgraded,
                 last_page, next_seq>>

\* The retry r = self.session.get(url, timeout=15) returns a response (line 205)
RetryResponse ==
  /\ pc = "retry"
  /\ \E r \in Responses :
       /\ last_fetch' = fetched(2, outcome_of(r))
       /\ handle_response(r)
  /\ last_call' = "get"
  /\ UNCHANGED <<const_vars, verify, seen, results, url, fetches, downgraded>>

\* The retry raises any exception (lines 206-209): continue
RetryException ==
  /\ pc = "retry"
  /\ last_fetch' = fetched(2, "error")
  /\ last_call' = "get"
  /\ pc' = "loop"
  /\ UNCHANGED <<const_vars, verify, seen, q, results, url, fetches, downgraded,
                 last_page, next_seq>>

\* Lines 231-236, on the content of the page (read here for the first time):
\* the page-level test, extract_profile, results.append.  An exception of
\* extract_profile leaves crawl.
Classify ==
  /\ pc = "classify"
  /\ \E soup \in PageContents :
       LET tested == looks_like_profile(url, soup)
           raises == tested /\ extract_profile_raises(url, soup)
           profile == IF tested /\ ~raises THEN extract_profile(url, soup) ELSE None
       IN  /\ results' = IF profile # None THEN Append(results, value(profile))
                         ELSE results
           /\ pc' = IF raises THEN "raised" ELSE "loop"
           /\ last_page' = page_at(IF raises THEN "extract_profile" ELSE "done",
                                   Some(soup), tested, profile)
  /\ UNCHANGED <<const_vars, verify, seen, q, url, fetches, downgraded,
                 last_fetch, last_call, next_seq>>

Next ==
  \/ DequeueSeen
  \/ DequeueNew
  \/ Return
  \/ Sleep
  \/ GetResponse
  \/ GetSSLError
  \/ GetException
  \/ RetryResponse
  \/ RetryException
  \/ Classify

Spec == Init /\ [][Next]_vars

\* crawl() in a process that keeps running: a step that can be taken is taken.
LiveSpec == Init /\ [][Next]_vars /\ WF_vars(Next)

(***************************************************************************)
(* find_label_value_pairs on its own, over generated documents             *)
(***************************************************************************)

\* The most entries a generated <dl>, <table> or run of paragraphs has.
MaxRows == 2

\* The <dt>/<dd> pairs of a generated definition list: two values under the
\* key "dept" and one under "post".
DlEntries ==
  { << <<"D","e","p","t",":">>, <<"A">> >>,
    << <<" ","d","e","p","t">>, <<"B">> >>,
    << <<"P","O","S","T">>, <<"A">> >> }

\* The rows of a generated table.
TableEntries ==
  { << <<"d","e","p","t">>, <<"C">> >>,
    << <<"D","e","p","t"," ",":",":">>, <<" ","D"," ">> >>,
    << <<"P","o","s","t",":">>, <<"C">> >> }

\* The 'label: value' lines of generated paragraphs.
ParaEntries ==
  { <<"d","e","p","t",":"," ","E">>,
    <<" ","D","e","p","t"," ",":","F",":","G">>,
    <<"p","o","s","t",":","E">> }

\* A key of 40 characters, one too long for the free-text pass.
LongKey == [i \in 1..KeyLenLimit |-> "k"]

\* The definition lists of a generated document: one list of at most MaxRows
\* pairs; a list with more terms than descriptions; two lists; a term whose
\* key is empty.
DlChoices ==
  { IF e = <<>> THEN <<>>
    ELSE << [dts |-> [i \in 1..Len(e) |-> e[i][1]], dds |-> [i \in 1..Len(e) |-> e[i][2]]] >> :
    e \in SeqsUpTo(DlEntries, MaxRows) }
  \cup { << [dts |-> << <<"d","e","p","t">>, <<"p","o","s","t">> >>, dds |-> << <<"A">> >>] >>,
         << [dts |-> << <<"d","e","p","t">> >>, dds |-> << <<"A">> >>],
            [dts |-> << <<"d","e","p","t">> >>, dds |-> << <<"B">> >>] >>,
         << [dts |-> << <<":">> >>, dds |-> << <<"A">> >>] >> }

\* The tables of a generated document: one table of at most MaxRows rows; a
\* one-cell row; a three-cell row; two tables; a row whose key is empty.
TableChoices ==
  { IF e = <<>> THEN <<>> ELSE << e >> : e \in SeqsUpTo(TableEntries, MaxRows) }
  \cup { << << << <<"d","e","p","t">> >>, << <<"p","o","s","t">>, <<"C">>, <<"D">> >> >> >>,
         << << << <<"d","e","p","t">>, <<"C">> >> >>, << << <<"d","e","p","t">>, <<"D">> >> >> >>,
         << << << <<" ",":">>, <<"C">> >> >> >> }

\* The paragraphs of a generated document: at most MaxRows 'label: value'
\* lines; a line without a colon; an empty value; an empty key; a long key.
ParaChoices ==
  SeqsUpTo(ParaEntries, MaxRows)
  \cup { << <<"d","e","p","t">>, <<"p","o","s","t",":"," ">> >>,
         << <<":","E">>, <<" ",":","F">> >>,
         << LongKey \o <<":","E">>, <<"d","e","p","t",":","E">> >> }

HarvestSoups ==
  { [Blank EXCEPT !.dls = d, !.tables = t, !.paras = p] :
      d \in DlChoices, t \in TableChoices, p \in ParaChoices }

\* find_label_value_pairs is about to be called on a generated document.
HarvestInit ==
  /\ h_soup \in HarvestSoups
  /\ h_pairs = <<>>
  /\ h_pc = "call"
  /\ start_url = U_root
  /\ domain = url_netloc(U_root)
  /\ verify = "certifi"
  /\ limit_arg = None
  /\ max_pages = 0
  /\ limit = 0
  /\ seen = {}
  /\ q = <<>>
  /\ next_seq = 0
  /\ results = <<>>
  /\ url = <<>>
  /\ pc = "off"
  /\ fetches = <<>>
  /\ downgraded = FALSE
  /\ last_fetch = None
  /\ last_page = None
  /\ last_call = "none"

\* pairs = find_label_value_pairs(soup)
Harvest ==
  /\ h_pc = "call"
  /\ h_pairs' = find_label_value_pairs(h_soup)
  /\ h_pc' = "return"
  /\ UNCHANGED <<start_url, domain, max_pages, verify, limit_arg, limit, seen, q,
                 results, url, pc, fetches, downgraded, last_fetch, last_page,
                 last_call, next_seq, h_soup>>

HarvestSpec == HarvestInit /\ [][Harvest]_vars

(***************************************************************************)
(* The claims                                                              *)
(***************************************************************************)

\* C1: during a crawl no URL is fetched more than once, two URLs that differ
\* only in their fragment counting as one (first GET of each dequeued URL,
\* the start URL as the caller gave it).
C1_NoUrlFetchedTwice ==
  \A u, v \in DOMAIN fetches :
     /\ fetches[u] <= 1
     /\ str_before(u, "#") = str_before(v, "#") => u = v

\* C2, as claimed: in every reachable state the frontier holds no URL twice.
C2_FrontierHoldsNoUrlTwice ==
  \A i, j \in 1..Len(q) : q[i].url = q[j].url => i = j

\* C2, amended: the enqueue step never inserts a URL that is in seen; every
\* entry a step adds to the frontier (its seq is not below the old next_seq)
\* is outside seen.
C2_EnqueueOnlyUnvisited ==
  [][\A i \in 1..Len(q') : q'[i].seq >= next_seq => q'[i].url \notin seen']_vars

\* C2: the enqueue step has just run and the frontier holds one URL twice.
C2_Witness ==
  /\ pc = "classify"
  /\ \E i, j \in 1..Len(q) : i < j /\ q[i].url = q[j].url /\ q[j].seq = next_seq - 1

\* C3: no non-relevant URL sits in front of a relevant URL in the frontier,
\* and whenever the frontier holds a relevant URL the URL a dequeue takes is
\* relevant.
C3_RelevantDrainFirst ==
  /\ [](\A i, j \in 1..Len(q) :
          (i < j /\ is_potential_relevant(q[j].url)) => is_potential_relevant(q[i].url))
  /\ [][(pc = "loop" /\ Len(q') < Len(q)
           /\ \E i \in 1..Len(q) : is_potential_relevant(q[i].url))
        => is_potential_relevant(url')]_vars

\* C3: a relevant URL stands in front of a non-relevant URL that was enqueued
\* before it.
C3_Witness ==
  \E i, j \in 1..Len(q) :
     /\ i < j /\ q[i].seq > q[j].seq
     /\ is_potential_relevant(q[i].url) /\ ~is_potential_relevant(q[j].url)

\* Two frontier entries belong to the same lane.
same_lane(a, b) == is_potential_relevant(a.url) = is_potential_relevant(b.url)

\* C4, as claimed: of two frontier entries of one lane, the one enqueued
\* earlier stands in front (and is dequeued earlier).
C4_FifoWithinEveryLane ==
  \A i, j \in 1..Len(q) : (i < j /\ same_lane(q[i], q[j])) => q[i].seq < q[j].seq

\* C4, amended: the non-relevant lane is first in, first out; the relevant
\* lane is last in, first out.
C4_LaneOrder ==
  \A i, j \in 1..Len(q) :
     (i < j /\ same_lane(q[i], q[j])) =>
        IF is_potential_relevant(q[i].url) THEN q[i].seq > q[j].seq
        ELSE q[i].seq < q[j].seq

\* C4: the frontier holds two different relevant URLs, the one enqueued later
\* in front.
C4_Witness ==
  \E i, j \in 1..Len(q) :
     /\ i < j /\ q[i].seq > q[j].seq /\ q[i].url # q[j].url
     /\ is_potential_relevant(q[i].url) /\ is_potential_relevant(q[j].url)

\* C5: in every state of crawl(limit), for a limit argument that is given and
\* not negative, seen holds at most limit URLs.
C5_VisitedWithinLimitArgument ==
  (limit_arg # None /\ value(limit_arg) >= 0) => Cardinality(seen) <= value(limit_arg)

\* C6: session.verify never goes back from "False"; once a GET has raised
\* SSLError every GET, the retry included, is made with verify "False"; and a
\* retry that returns an accepted response goes on to the link collection and
\* the classification like a first GET (or raises in get_links like one).
C6_TlsDowngradeLatch ==
  /\ [][verify = "False" => verify' = "False"]_vars
  /\ [][downgraded => verify' = "False"]_vars
  /\ []((downgraded /\ last_fetch # None /\ value(last_fetch).attempt = 2)
           => value(last_fetch).verify = "False")
  /\ [][(downgraded /\ pc = "get" /\ last_fetch' # None)
           => value(last_fetch').verify = "False"]_vars
  /\ [][(pc = "retry" /\ last_fetch' # None /\ value(last_fetch').outcome = "page")
           => /\ pc' \in {"classify", "raised"}
              /\ last_page' # None
              /\ value(last_page').url = url
              /\ value(last_page').stage = (IF pc' = "raised" THEN "get_links" ELSE "links")]_vars

\* C6: the first GET of a URL raised SSLError, the retry (made with verify
\* "False") returned a page, and the page went through the link collection,
\* the page-level test and extract_profile, which returned a record.
C6_Witness ==
  /\ pc = "loop"
  /\ last_fetch # None
  /\ value(last_fetch).attempt = 2
  /\ value(last_fetch).outcome = "page"
  /\ value(last_fetch).verify = "False"
  /\ last_page # None
  /\ value(last_page).stage = "done"
  /\ value(last_page).profile # None

\* C7: no failure of one URL ends the crawl with an exception.
C7_CrawlNeverRaises == pc # "raised"

\* C8: whenever crawl() is about to issue a GET, the first of a URL or the
\* retry, the call just before was time.sleep.
C8_DelayBeforeEveryGet ==
  pc \in {"get", "retry"} => last_call = "sleep"

\* The record's four guarded fields are not all empty.
has_profile_data(name, emails, phones, designation) ==
  name # <<>> \/ emails # {} \/ phones # <<>> \/ designation # <<>>

table_rows_of(soup, k) ==
  { p \in UNION {{<<t, r>> : r \in 1..Len(soup.tables[t])} : t \in 1..Len(soup.tables)} :
      LET row == soup.tables[p[1]][p[2]]
      IN  Len(row) >= 2 /\ k # <<>> /\ label_key(row[1]) = k }

\* The positions <<d, i>> of the definition-list pairs that set key k: the
\* i-th term of list d, when the list has an i-th description.
dl_pairs_of(soup, k) ==
  { p \in UNION {{<<d, i>> : i \in 1..Len(soup.dls[d].dts)} : d \in 1..Len(soup.dls)} :
      /\ p[2] <= Len(soup.dls[p[1]].dds)
      /\ k # <<>>
      /\ label_key(soup.dls[p[1]].dts[p[2]]) = k }

\* The key and the value of a free-text line (the line holds a colon).
line_key(t) == str_strip(str_lower(str_before(normalize_text(t), ":")))

line_value(t) == str_strip(str_after(normalize_text(t), ":"))

\* A free-text line the harvester accepts.
line_accepted(t) ==
  /\ \E i \in 1..Len(t) : t[i] = ":"
  /\ Len(line_key(t)) < KeyLenLimit
  /\ Len(line_value(t)) > 0

\* The indices of the accepted free-text lines with key k.
lines_of(soup, k) ==
  { i \in 1..Len(soup.paras) : line_accepted(soup.paras[i]) /\ line_key(soup.paras[i]) = k }

\* The last of a set of positions, in document order.
last_position(P) ==
  CHOOSE p \in P : \A o \in P : o[1] < p[1] \/ (o[1] = p[1] /\ o[2] <= p[2])

\* Every key a table row, a definition-list term or a free-text line of the
\* document spells, set or not.
keys_of(soup) ==
  UNION {{label_key(soup.tables[t][r][1]) : r \in 1..Len(soup.tables[t])} :
            t \in 1..Len(soup.tables)}
  \cup UNION {{label_key(soup.dls[d].dts[i]) : i \in 1..Len(soup.dls[d].dts)} :
                 d \in 1..Len(soup.dls)}
  \cup {line_key(soup.paras[i]) : i \in 1..Len(soup.paras)}

\* The value the three sources give key k by precedence: the last table row,
\* else the last definition-list pair, else the first accepted line; None for
\* a key no source sets.
value_by_precedence(soup, k) ==
  IF table_rows_of(soup, k) # {}
  THEN LET p == last_position(table_rows_of(soup, k))
       IN  Some(normalize_text(soup.tables[p[1]][p[2]][2]))
  ELSE IF dl_pairs_of(soup, k) # {}
  THEN LET p == last_position(dl_pairs_of(soup, k))
       IN  Some(normalize_text(soup.dls[p[1]].dds[p[2]]))
  ELSE IF lines_of(soup, k) # {}
  THEN LET i == CHOOSE x \in lines_of(soup, k) : \A y \in lines_of(soup, k) : x <= y
       IN  Some(line_value(soup.paras[i]))
  ELSE None

\* C10: for every key, find_label_value_pairs returns the value of the last
\* table row with that key, else of the last definition-list pair, else of
\* the first accepted free-text line; it holds no other key.
C10_HarvesterPrecedence ==
  h_pc = "return" =>
     /\ \A k \in keys_of(h_soup) \cup DOMAIN h_pairs :
           IF k \in DOMAIN h_pairs
           THEN value_by_precedence(h_soup, k) = Some(h_pairs[k])
           ELSE value_by_precedence(h_soup, k) = None

\* C10: a table row and a free-text line set the same key to different
\* values, and the dict returned holds the table's value.
C10_Witness ==
  /\ h_pc = "return"
  /\ \E k \in DOMAIN h_pairs :
        /\ table_rows_of(h_soup, k) # {}
        /\ \E i \in lines_of(h_soup, k) : line_value(h_soup.paras[i]) # h_pairs[k]

\* The host of u is dom, or a host under dom: some label, a dot, and dom.
host_within(u, dom) ==
  LET host == url_netloc(u)
  IN  \/ host = dom
      \/ /\ Len(host) > Len(dom) + 1
         /\ host[Len(host) - Len(dom)] = "."
         /\ \A i \in 1..Len(dom) : host[Len(host) - Len(dom) + i] = dom[i]

\* C11: every URL in the frontier, every URL dequeued and every URL fetched
\* has the host of the start URL or a host that ends with "." and that host.
C11_DomainContainment ==
  LET target == url_netloc(start_url)
  IN  /\ \A i \in 1..Len(q) : host_within(q[i].url, target)
      /\ \A u \in seen \cup DOMAIN fetches : host_within(u, target)
      /\ url # <<>> => host_within(url, target)

\* C11: a URL on a subdomain of the target domain has been enqueued, dequeued
\* and fetched, while another of the target domain itself waits in the frontier.
C11_Witness ==
  /\ \E u \in DOMAIN fetches : url_netloc(u) # domain
  /\ \E i \in 1..Len(q) : url_netloc(q[i].url) = domain

\* C12: the first GET of a dequeued URL is its first attempt; a second
\* attempt follows only a first one that raised SSLError, and nothing follows
\* the second; a GET that raised another error, or returned a status other
\* than 200 or a content type without text/html, ends the handling of the URL,
\* and so does a retry that failed.
C12_FetchAttempts ==
  [][ /\ (pc = "get" /\ pc' # pc) =>
            /\ last_fetch = None
            /\ value(last_fetch').attempt = 1
            /\ value(last_fetch').url = url
            /\ pc' = "retry" <=> value(last_fetch').outcome = "ssl_error"
            /\ value(last_fetch').outcome \in {"error", "rejected"} => pc' = "loop"
      /\ (pc = "retry" /\ pc' # pc) =>
            /\ last_fetch # None
            /\ value(last_fetch).attempt = 1
            /\ value(last_fetch).outcome = "ssl_error"
            /\ value(last_fetch).url = url
            /\ value(last_fetch').attempt = 2
            /\ value(last_fetch').url = url
            /\ pc' \in {"loop", "classify", "raised"}
            /\ value(last_fetch').outcome \in {"error", "rejected"} => pc' = "loop"
      /\ (pc' = "get" /\ pc # "get") => pc = "sleep" /\ last_fetch = None
      /\ (pc' = "retry" /\ pc # "retry") => pc = "get"
      /\ (last_fetch' # last_fetch /\ last_fetch' # None) => pc \in {"get", "retry"}
    ]_vars

\* C12: the first GET of a URL raised SSLError, the retry raised too, and the
\* crawl is back at its loop.
C12_Witness ==
  /\ pc = "loop"
  /\ last_fetch # None
  /\ value(last_fetch).attempt = 2
  /\ value(last_fetch).outcome = "error"
  /\ fetches[url] = 1

\* C13: dequeuing a URL removes it from the front of q and adds it to seen;
\* from there on, every step of its handling other than a GET that returns an
\* accepted page leaves q, seen and results as they are, with the URL in seen;
\* and the handling goes from a GET straight back to the loop only on a fetch
\* error, a failed retry, a status other than 200 or a content type that is
\* not HTML.
C13_AbandonedUrlLeavesNoTrace ==
  [][ /\ (pc = "loop" /\ pc' = "sleep") =>
            /\ q' = Tail(q)
            /\ url' = Head(q).url
            /\ seen' = seen \cup {url'}
            /\ results' = results
      /\ (pc \in {"sleep", "get", "retry"}
            /\ ~(last_fetch' # None /\ value(last_fetch').outcome = "page")) =>
            /\ q' = q
            /\ results' = results
            /\ seen' = seen
            /\ url' = url
            /\ url \in seen
      /\ (pc \in {"get", "retry"} /\ pc' = "loop") =>
            value(last_fetch').outcome \in {"error", "rejected"}
    ]_vars

\* C13: a URL was abandoned on a status other than 200 or a content type that
\* is not HTML, while other URLs wait in the frontier and results holds a
\* record.
C13_Witness ==
  /\ pc = "loop"
  /\ last_fetch # None
  /\ value(last_fetch).outcome = "rejected"
  /\ url \in seen
  /\ q # <<>>
  /\ results # <<>>

\* C14: no step removes a URL from seen, and no step puts into q a URL that
\* was in seen before the step.
C14_VisitedOnlyGrows ==
  [][ /\ seen \subseteq seen'
      /\ Cardinality(seen') >= Cardinality(seen)
      /\ \A i \in 1..Len(q') :
            (\A j \in 1..Len(q) : q[j].seq # q'[i].seq) => q'[i].url \notin seen
    ]_vars

\* C14: with two URLs visited and the links of a page just processed, the
\* newest entry of the frontier is a URL that is not in seen.
C14_Witness ==
  /\ pc = "classify"
  /\ Cardinality(seen) >= 2
  /\ \E i \in 1..Len(q) :
        q[i].seq = next_seq - 1 /\ q[i].seq >= 2 /\ q[i].url \notin seen

\* C15: get_links never raises: a page with an href that urljoin cannot
\* resolve gets past the link collection of line 221.
C15_MalformedLinksDropped ==
  last_page # None => value(last_page).stage # "get_links"

\* C16: in a crawl with a page budget of at least 1, seen and q together
\* never hold more than limit entries, and a step that makes q longer starts
\* with fewer than limit.
C16_EnqueueWithinBudget ==
  /\ [](limit >= 1 => Cardinality(seen) + Len(q) <= limit)
  /\ [][(limit >= 1 /\ Len(q') > Len(q)) => Cardinality(seen) + Len(q) < limit]_vars

\* C16: the link loop of a page has enqueued two links and filled the budget.
C16_Witness ==
  /\ pc = "classify"
  /\ limit >= 3
  /\ Cardinality(seen) + Len(q) = limit
  /\ \E i, j \in 1..Len(q) : q[i].seq = next_seq - 1 /\ q[j].seq = next_seq - 2

\* C17: crawl() eventually leaves its loop and returns results.
C17_CrawlReturns ==
  <>(pc = "done")

\* C17, for the loop alone: crawl() eventually stops, by returning results or
\* by an exception that leaves it.
C17_CrawlStops ==
  <>(pc \in {"done", "raised"})

\* The text holds word w, in any case: some stretch of it spells w.
holds_word(text, w) ==
  LET lower == str_lower(text)
  IN  \E i \in 1..Len(text) :
         /\ i + Len(w) - 1 <= Len(text)
         /\ \A j \in 1..Len(w) : lower[i + j - 1] = w[j]

\* C18: the page-level test passed exactly when the URL holds a keyword, or
\* the text of the page holds research, designation or email and the page has
\* an <h1> or an <h2>; extract_profile ran only on a page that passed, and
\* the test and the extraction come after the links of the page were enqueued,
\* without touching the frontier.
C18_PageLevelGate ==
  /\ [](last_page # None /\ value(last_page).stage \in {"done", "extract_profile"} =>
           LET page == value(last_page)
               soup == value(page.content)
               by_url == \E k \in keywords : holds_word(page.url, k)
               by_page == /\ \/ holds_word(soup.text, <<"r","e","s","e","a","r","c","h">>)
                             \/ holds_word(soup.text, <<"d","e","s","i","g","n","a","t","i","o","n">>)
                             \/ holds_word(soup.text, <<"e","m","a","i","l">>)
                          /\ (soup.h1 # None \/ soup.h2 # None)
           IN  /\ page.tested <=> (by_url \/ by_page)
               /\ ~page.tested => page.profile = None /\ page.stage = "done")
  /\ [][ /\ (last_page' # last_page /\ last_page' # None
               /\ value(last_page').stage \in {"done", "extract_profile"}) =>
               /\ last_page # None
               /\ value(last_page).stage = "links"
               /\ value(last_page).url = value(last_page').url
               /\ q' = q
         /\ results' # results =>
               /\ pc = "classify"
               /\ value(last_page').tested
               /\ results' = Append(results, value(value(last_page').profile))
       ]_vars

\* C18: a page with a marker word and an <h3>, but no <h1> or <h2>, at a URL
\* without a keyword, did not pass the test, after its links were enqueued.
C18_Witness ==
  /\ last_page # None
  /\ value(last_page).stage = "done"
  /\ ~value(last_page).tested
  /\ value(value(last_page).content).h3 # None
  /\ q # <<>>

\* C19: when a crawl with a page budget of at least 1 has returned with fewer
\* than 10000 results, the frontier is empty.
C19_FrontierDrainedAtReturn ==
  (pc = "done" /\ limit >= 1 /\ Len(results) < ResultCap) => q = <<>>

\* C19: a crawl has returned with its page budget of two or more used up, a
\* record in results and nothing left in the frontier.
C19_Witness ==
  /\ pc = "done"
  /\ limit >= 2
  /\ Cardinality(seen) = limit
  /\ results # <<>>
  /\ q = <<>>

\* C20: every record of results has a profile_url that is in seen, no two
\* records have the same profile_url, and results is no longer than seen has
\* URLs, nor longer than the result cap.
C20_OneResultPerVisitedPage ==
  /\ \A i \in 1..Len(results) : results[i].profile_url \in seen
  /\ \A i, j \in 1..Len(results) :
        results[i].profile_url = results[j].profile_url => i = j
  /\ Len(results) <= Cardinality(seen)
  /\ Len(results) <= ResultCap

\* C20: a visited page gave a record, and its URL, enqueued twice, waits in
\* the frontier once more.
C20_Witness ==
  /\ pc = "loop"
  /\ results # <<>>
  /\ \E i \in 1..Len(q) : q[i].url = results[Len(results)].profile_url

====
